---- MODULE Spec2Model ----
(***************************************************************************)
(* Model of the daily-programming-insight generator:                       *)
(*   src/scripts/generate_tip.py    (configuration, schedule, prompt,      *)
(*                                   completion client, publisher, main)   *)
(*   src/workflows/generate_tip.py  (the older variant of the schedule)    *)
(*                                                                         *)
(* Python values are tagged records (PyNone, PyStr, PyInt, PyList,         *)
(* PyDict); a Python str whose characters matter is a sequence of          *)
(* one-character strings; a raised exception is a record with t = "exc".   *)
(***************************************************************************)
EXTENDS Integers, Sequences, FiniteSets, TLC

VARIABLES env, pc, cfg, err, now, variant, day_info, prompt, resp,
          post_body, title, repo_id, discussion_url, out, calls

vars == <<env, pc, cfg, err, now, variant, day_info, prompt, resp,
          post_body, title, repo_id, discussion_url, out, calls>>

---------------------------------------------------------------------------
(* Bounds of the model. *)

\* longest REPO_NAME / REPO_OWNER value drawn for the environment
MaxRepoLen == 3

\* longest completion content drawn for a completion response
MaxContentLen == 4

\* first day (days since 1970-01-01) of the window `now` is drawn from
NowFirstDay == 19779

\* days in the window of the publishing run
MainDays == 7

\* days in the window of the schedule / prompt runs
SchedDays == 42

---------------------------------------------------------------------------
(* Python values. *)

PyNone == [t |-> "None"]

PyStr(s) == [t |-> "str", s |-> s]

PyInt(n) == [t |-> "int", n |-> n]

PyList(l) == [t |-> "list", l |-> l]

PyDict(f) == [t |-> "dict", f |-> f]

\* bool(v): None, "", 0, [] and {} are falsy
Truthy(v) ==
    CASE v.t = "None" -> FALSE
      [] v.t = "str"  -> Len(v.s) > 0
      [] v.t = "int"  -> v.n # 0
      [] v.t = "list" -> Len(v.l) > 0
      [] v.t = "dict" -> DOMAIN v.f # {}
      [] OTHER        -> TRUE

IsStr(v) == v.t = "str"

\* isinstance(v, Mapping)
IsMapping(v) == v.t = "dict"

\* a raised exception; arg is the value interpolated into the message
Raise(exc, msg, arg) == [t |-> "exc", exc |-> exc, msg |-> msg, arg |-> arg]

IsExc(v) == v.t = "exc"

NoErr == PyNone

---------------------------------------------------------------------------
(* Strings as sequences of characters. *)

RECURSIVE StringsUpTo(_, _)
StringsUpTo(alphabet, n) ==
    IF n = 0 THEN {<<>>}
    ELSE LET shorter == StringsUpTo(alphabet, n - 1)
         IN  shorter \cup {Append(s, c) : s \in shorter, c \in alphabet}

LowerChar(c) ==
    CASE c = "T" -> "t"
      [] c = "R" -> "r"
      [] c = "U" -> "u"
      [] c = "E" -> "e"
      [] c = "F" -> "f"
      [] OTHER   -> c

\* str.lower()
Lower(s) == [i \in 1..Len(s) |-> LowerChar(s[i])]

IsSpace(c) == c \in {" ", "\n", "\t"}

RECURSIVE LStrip(_)
LStrip(s) == IF s # <<>> /\ IsSpace(Head(s)) THEN LStrip(Tail(s)) ELSE s

RECURSIVE RStrip(_)
RStrip(s) ==
    IF s # <<>> /\ IsSpace(s[Len(s)]) THEN RStrip(SubSeq(s, 1, Len(s) - 1)) ELSE s

\* a strip of the left end only
LStripOnly(s) == LStrip(s)

\* str.strip()
Strip(s) == RStrip(LStrip(s))

\* sep in s
Contains(s, sep) == \E i \in 1..Len(s) : s[i] = sep

\* a split at the last sep, as s.rsplit(sep, 1) would cut
SplitLast(s, sep) ==
    LET i == CHOOSE k \in 1..Len(s) : s[k] = sep /\ \A j \in (k + 1)..Len(s) : s[j] # sep
    IN  <<SubSeq(s, 1, i - 1), SubSeq(s, i + 1, Len(s))>>

\* s.split(sep, 1) for a string that contains sep: cut at the first sep
SplitOnce(s, sep) ==
    LET i == CHOOSE k \in 1..Len(s) : s[k] = sep /\ \A j \in 1..(k - 1) : s[j] # sep
    IN  <<SubSeq(s, 1, i - 1), SubSeq(s, i + 1, Len(s))>>

---------------------------------------------------------------------------
(* Configuration: module-level code of scripts/generate_tip.py. *)

EnvKey(name) == [key |-> name]

\* a require_env that rejects only an unset variable
RequireEnvNoneOnly(e, var_name) ==
    LET value == e[var_name]
    IN  IF value = PyNone
        THEN Raise("RuntimeError", "Missing required environment variable: ",
                   EnvKey(var_name))
        ELSE value

\* require_env(var_name): os.environ.get(var_name), rejected when None or ""
RequireEnv(e, var_name) ==
    LET value == e[var_name]
    IN  IF ~Truthy(value)
        THEN Raise("RuntimeError", "Missing required environment variable: ",
                   EnvKey(var_name))
        ELSE value

\* REPO_OWNER / REPO_NAME from the slug or from the two variables
ResolveRepo(repo_owner_env, repo_name_raw) ==
    IF Contains(repo_name_raw.s, "/")
    THEN LET parts == SplitOnce(repo_name_raw.s, "/")
         IN  [t |-> "repo", REPO_OWNER |-> PyStr(parts[1]), REPO_NAME |-> PyStr(parts[2])]
    ELSE IF ~Truthy(repo_owner_env)
         THEN Raise("RuntimeError",
                    "REPO_OWNER environment variable is required when REPO_NAME does not include the owner",
                    EnvKey("REPO_OWNER"))
         ELSE [t |-> "repo", REPO_OWNER |-> repo_owner_env, REPO_NAME |-> repo_name_raw]

\* a DRY_RUN test without .lower()
ParseDryRunCaseSensitive(value) ==
    LET text == IF value.t = "None" THEN <<"f", "a", "l", "s", "e">> ELSE value.s
    IN  text = <<"t", "r", "u", "e">>

\* os.environ.get("DRY_RUN", "false").lower() == "true"
ParseDryRun(value) ==
    LET text == IF value.t = "None" THEN <<"f", "a", "l", "s", "e">> ELSE value.s
    IN  Lower(text) = <<"t", "r", "u", "e">>

\* the module-level statements in order; the first exception ends the import
LoadConfig(e) ==
    LET token    == RequireEnv(e, "GITHUB_TOKEN")
        groq     == RequireEnv(e, "GROQ_API_KEY")
        owner    == e["REPO_OWNER"]
        name     == RequireEnv(e, "REPO_NAME")
        repo     == ResolveRepo(owner, name)
        category == RequireEnv(e, "DISCUSSION_CATEGORY_ID")
    IN  IF IsExc(token) THEN token
        ELSE IF IsExc(groq) THEN groq
        ELSE IF IsExc(name) THEN name
        ELSE IF IsExc(repo) THEN repo
        ELSE IF IsExc(category) THEN category
        ELSE [t |-> "config",
              GITHUB_TOKEN |-> token,
              GROQ_API_KEY |-> groq,
              REPO_OWNER |-> repo.REPO_OWNER,
              REPO_NAME |-> repo.REPO_NAME,
              DISCUSSION_CATEGORY_ID |-> category,
              DRY_RUN |-> ParseDryRun(e["DRY_RUN"])]

---------------------------------------------------------------------------
(* Schedule resolver. *)

LANGUAGE_SCHEDULE ==
    [i \in 0..6 |->
        CASE i = 0 -> "Wildcard"
          [] i = 1 -> "Python"
          [] i = 2 -> "Java"
          [] i = 3 -> "JavaScript"
          [] i = 4 -> "Go"
          [] i = 5 -> "Wildcard"
          [] i = 6 -> "Wildcard"]

\* the table of workflows/generate_tip.py
LANGUAGE_SCHEDULE_WORKFLOWS ==
    [i \in 0..6 |->
        CASE i = 0 -> "Wildcard"
          [] i = 1 -> "Python"
          [] i = 2 -> "Java"
          [] i = 3 -> "Go"
          [] i = 4 -> "JavaScript"
          [] i = 5 -> "Wildcard"
          [] i = 6 -> "Wildcard"]

DAY_NAMES ==
    [i \in 0..6 |->
        CASE i = 0 -> "Sunday"
          [] i = 1 -> "Monday"
          [] i = 2 -> "Tuesday"
          [] i = 3 -> "Wednesday"
          [] i = 4 -> "Thursday"
          [] i = 5 -> "Friday"
          [] i = 6 -> "Saturday"]

\* datetime.weekday() of the UTC day z (days since 1970-01-01, a Thursday):
\* Monday = 0 .. Sunday = 6
PyWeekday(z) == (z + 3) % 7

\* the proleptic Gregorian date <<year, month, day>> of day z
CivilFromDays(z) ==
    LET zz  == z + 719468
        era == zz \div 146097
        doe == zz - era * 146097
        yoe == (doe - doe \div 1460 + doe \div 36524 - doe \div 146096) \div 365
        doy == doe - (365 * yoe + yoe \div 4 - yoe \div 100)
        mp  == (5 * doy + 2) \div 153
        d   == doy - (153 * mp + 2) \div 5 + 1
        m   == IF mp < 10 THEN mp + 3 ELSE mp - 9
        y   == yoe + era * 400 + (IF m <= 2 THEN 1 ELSE 0)
    IN  <<y, m, d>>

Digit(n) ==
    CASE n = 0 -> "0" [] n = 1 -> "1" [] n = 2 -> "2" [] n = 3 -> "3"
      [] n = 4 -> "4" [] n = 5 -> "5" [] n = 6 -> "6" [] n = 7 -> "7"
      [] n = 8 -> "8" [] n = 9 -> "9"

\* now.strftime("%Y-%m-%d")
Strftime(z) ==
    LET ymd == CivilFromDays(z)
        y == ymd[1]
        m == ymd[2]
        d == ymd[3]
    IN  <<Digit((y \div 1000) % 10), Digit((y \div 100) % 10),
          Digit((y \div 10) % 10), Digit(y % 10), "-",
          Digit(m \div 10), Digit(m % 10), "-",
          Digit(d \div 10), Digit(d % 10)>>

\* the weekday index without the shift to Sunday = 0
SundayIndexUnshifted(w) == w

\* weekday = now.weekday() + 1 if now.weekday() != 6 else 0
SundayIndex(w) == IF w # 6 THEN w + 1 ELSE 0

\* get_current_day_info() of scripts/generate_tip.py at day z
GetCurrentDayInfo(z) ==
    LET weekday == SundayIndex(PyWeekday(z))
    IN  IF weekday \in DOMAIN DAY_NAMES /\ weekday \in DOMAIN LANGUAGE_SCHEDULE
        THEN [t |-> "day_info",
              day_name |-> DAY_NAMES[weekday],
              language |-> LANGUAGE_SCHEDULE[weekday],
              date |-> Strftime(z)]
        ELSE Raise("KeyError", "", [index |-> weekday])

\* get_current_day_info() of workflows/generate_tip.py at day z
GetCurrentDayInfoWorkflows(z) ==
    LET weekday == SundayIndex(PyWeekday(z))
    IN  IF weekday \in DOMAIN DAY_NAMES /\ weekday \in DOMAIN LANGUAGE_SCHEDULE_WORKFLOWS
        THEN [t |-> "day_info",
              day_name |-> DAY_NAMES[weekday],
              language |-> LANGUAGE_SCHEDULE_WORKFLOWS[weekday],
              date |-> Strftime(z)]
        ELSE Raise("KeyError", "", [index |-> weekday])

---------------------------------------------------------------------------
(* Prompt builder.  The rendered prompt is the sequence of its pieces: a    *)
(* piece is a word the schedule, the outline or day_info can name, or the  *)
(* fixed text between two such words ("->" and "--" stand for the arrow    *)
(* and the dash of the source).                                            *)

W(text) == [w |-> text]

DateToken(date) == [date |-> date]

SectionNames ==
    <<"Introduction", "Topic Preview", "Fun Fact", "Tips/Notes",
      "Code Snippet", "Explanation", "Sources">>

\* the header without the date interpolated
PromptHeaderNoDate(info) ==
    <<W("Create today's GitHub Discussion post for the Daily Programming Insight series."),
      W("Date: "),
      W("Day: "), W(info.day_name),
      W("Scheduled Language: "), W(info.language)>>

\* lines 95-99: the opening sentence and the Date, Day and Language lines
PromptHeader(info) ==
    <<W("Create today's GitHub Discussion post for the Daily Programming Insight series."),
      W("Date: "), DateToken(info.date),
      W("Day: "), W(info.day_name),
      W("Scheduled Language: "), W(info.language)>>

\* lines 101-108: the fixed language schedule
PromptSchedule ==
    <<W("Follow these exact rules:"),
      W("Language schedule"),
      W("- "), W("Monday"), W(" -> "), W("Python"),
      W("- "), W("Tuesday"), W(" -> "), W("Java"),
      W("- "), W("Wednesday"), W(" -> "), W("JavaScript"),
      W("- "), W("Thursday"), W(" -> "), W("Go"),
      W("- "), W("Friday"), W(", "), W("Saturday"), W(", "), W("Sunday"), W(" -> "),
      W("Wildcard"), W(" (you may pick any language, including niche or emerging ones)")>>

\* lines 110-117: the numbered outline
PromptOutline ==
    <<W("Post structure and formatting"),
      W("1. "), W("Introduction"),
      W(" -- 1-2 sentences introducing yourself as the AI assistant."),
      W("2. "), W("Topic Preview"),
      W(" -- Clearly state the specific concept or technique covered today."),
      W("3. "), W("Fun Fact"),
      W(" -- 2-4 sentences about the scheduled language including year or origin context."),
      W("4. "), W("Tips/Notes"),
      W(" -- Provide exactly 1-2 practical syntax tips, functions, or features for the language."),
      W("5. "), W("Code Snippet"),
      W(" -- Provide a runnable example in the scheduled language that demonstrates the concept. Use a fenced code block tagged with the lowercase language name. The snippet must be 30-50 lines, beginner-friendly yet intermediate in difficulty, and follow PEP 8 if the language is "),
      W("Python"), W(". Include helpful inline comments."),
      W("6. "), W("Explanation"),
      W(" -- Offer a step-by-step breakdown of how the code works, why the concept matters, and practical use cases. Use numbered steps."),
      W("7. "), W("Sources"),
      W(" -- If you referenced any external material, cite the links in Markdown list format. If not, output "),
      W("Sources"), W(": None.")>>

\* lines 119-126: the additional requirements and the closing sentence
PromptRequirements(info) ==
    <<W("Additional requirements"),
      W("- Maintain professional, concise, beginner-friendly tone."),
      W("- Never add sections beyond the list above."),
      W("- Always produce valid Markdown."),
      W("- For wildcard days, still follow the structure and pick a language that differs from the workweek schedule."),
      W("- "), W("Topic Preview"), W(", "), W("Fun Fact"),
      W(", and Tips must relate to the scheduled language ("), W(info.language), W(")."),
      W("Return only the finished Markdown post with the seven sections in the order listed.")>>

\* build_user_prompt(day_info)
BuildUserPrompt(info) ==
    PromptHeader(info) \o PromptSchedule \o PromptOutline \o PromptRequirements(info)

---------------------------------------------------------------------------
(* Completion client. *)

\* getattr(obj, name, None)
GetAttr(obj, name) == IF name \in DOMAIN obj THEN obj[name] ELSE PyNone

\* generate_programming_tip: the checks on the response of
\* client.chat.completions.create (an exception when the call itself raised)
GenerateProgrammingTip(response) ==
    IF IsExc(response) THEN response
    ELSE IF ~Truthy(response.choices)
    THEN Raise("RuntimeError", "Groq completion response did not contain choices", PyNone)
    ELSE LET content == GetAttr(response.choices.l[1].message, "content")
         IN  IF ~Truthy(content) \/ ~IsStr(content)
             THEN Raise("RuntimeError",
                        "Received empty or non-string content from Groq completion", PyNone)
             ELSE LET stripped == Strip(content.s)
                  IN  IF stripped = <<>>
                      THEN Raise("RuntimeError",
                                 "Groq completion content was blank after stripping whitespace",
                                 PyNone)
                      ELSE PyStr(stripped)

---------------------------------------------------------------------------
(* Publisher. *)

RECURSIVE IsSubstring(_, _)
IsSubstring(needle, s) ==
    IF Len(needle) > Len(s) THEN FALSE
    ELSE SubSeq(s, 1, Len(needle)) = needle \/ IsSubstring(needle, Tail(s))

ErrorsKey == <<"e", "r", "r", "o", "r", "s">>

\* response.raise_for_status(): raises for 4xx and 5xx
RaisesForStatus(status) == status >= 400 /\ status < 600

\* "errors" in payload, by the type of the decoded body
ErrorsIn(payload) ==
    CASE payload.t = "dict" -> "errors" \in DOMAIN payload.f
      [] payload.t = "list" -> \E i \in 1..Len(payload.l) : payload.l[i] = PyStr(ErrorsKey)
      [] payload.t = "str"  -> IsSubstring(ErrorsKey, payload.s)
      [] OTHER              -> FALSE

\* github_graphql: the checks on the response of requests.post
GithubGraphql(response) ==
    IF IsExc(response) THEN response
    ELSE IF RaisesForStatus(response.status)
    THEN Raise("HTTPError", "", [status |-> response.status])
    ELSE LET payload == response.body
         IN  IF payload.t = "invalid"
             THEN Raise("JSONDecodeError", "", PyNone)
             ELSE IF payload.t \in {"None", "int"}
             THEN Raise("TypeError", "argument of type is not iterable", PyNone)
             ELSE IF ErrorsIn(payload) /\ payload.t = "dict"
             THEN Raise("RuntimeError", "GitHub GraphQL error: ", payload.f["errors"])
             ELSE IF payload.t # "dict"
             THEN Raise("TypeError", "indices must be integers", PyNone)
             ELSE IF "data" \notin DOMAIN payload.f
             THEN Raise("KeyError", "data", PyNone)
             ELSE payload.f["data"]

\* data.get(key) on the value github_graphql returned
DataGet(data, key) ==
    IF data.t # "dict"
    THEN Raise("AttributeError", "object has no attribute 'get'", PyNone)
    ELSE IF key \in DOMAIN data.f THEN data.f[key] ELSE PyNone

\* fetch_repository_id: the checks on the response to the repository query
FetchRepositoryId(response) ==
    LET data == GithubGraphql(response)
    IN  IF IsExc(data) THEN data
        ELSE LET repo == DataGet(data, "repository")
             IN  IF IsExc(repo) THEN repo
                 ELSE IF ~IsMapping(repo) \/ "id" \notin DOMAIN repo.f
                 THEN Raise("RuntimeError",
                            "Unable to resolve repository ID from GitHub API response", PyNone)
                 ELSE LET id == repo.f["id"]
                      IN  IF ~IsStr(id) \/ ~Truthy(id)
                          THEN Raise("RuntimeError",
                                     "GitHub repository ID was missing or invalid", PyNone)
                          ELSE id

\* a create_discussion that returns the url without the final check on it
CreateDiscussionUnchecked(response) ==
    LET data == GithubGraphql(response)
    IN  IF IsExc(data) THEN data
        ELSE LET created == DataGet(data, "createDiscussion")
             IN  IF IsExc(created) THEN created
                 ELSE LET discussion ==
                              IF IsMapping(created)
                              THEN (IF "discussion" \in DOMAIN created.f
                                    THEN created.f["discussion"] ELSE PyNone)
                              ELSE PyNone
                      IN  IF ~IsMapping(discussion) \/ "url" \notin DOMAIN discussion.f
                          THEN Raise("RuntimeError",
                                     "GitHub did not return a discussion URL", PyNone)
                          ELSE discussion.f["url"]

\* create_discussion: the checks on the response to the createDiscussion mutation
CreateDiscussion(response) ==
    LET data == GithubGraphql(response)
    IN  IF IsExc(data) THEN data
        ELSE LET created == DataGet(data, "createDiscussion")
             IN  IF IsExc(created) THEN created
                 ELSE LET discussion ==
                              IF IsMapping(created)
                              THEN (IF "discussion" \in DOMAIN created.f
                                    THEN created.f["discussion"] ELSE PyNone)
                              ELSE PyNone
                      IN  IF ~IsMapping(discussion) \/ "url" \notin DOMAIN discussion.f
                          THEN Raise("RuntimeError",
                                     "GitHub did not return a discussion URL", PyNone)
                          ELSE LET url == discussion.f["url"]
                               IN  IF ~IsStr(url) \/ ~Truthy(url)
                                   THEN Raise("RuntimeError",
                                              "GitHub discussion URL was missing or invalid",
                                              PyNone)
                                   ELSE url

---------------------------------------------------------------------------
(* Inputs: the environment and the remote responses a run can meet. *)

Str1(c) == PyStr(<<c>>)

\* a required secret: unset, empty or set
SecretValues == {PyNone, PyStr(<<>>), Str1("k")}

RepoNameValues == {PyNone} \cup {PyStr(s) : s \in StringsUpTo({"a", "/"}, MaxRepoLen)}

RepoOwnerValues == {PyNone, PyStr(<<>>), Str1("o")}

DryRunTexts ==
    { <<"t", "r", "u", "e">>, <<"T", "R", "U", "E">>, <<"T", "r", "u", "e">>,
      <<"t", "R", "u", "E">>, <<>>, <<"f", "a", "l", "s", "e">>,
      <<"F", "a", "l", "s", "e">>, <<" ", "t", "r", "u", "e">>,
      <<"t", "r", "u", "e", "\n">>, <<"t", "r", "u">>, <<"t", "r", "u", "e", "e">>,
      <<"1">>, <<"y", "e", "s">> }

DryRunValues == {PyNone} \cup {PyStr(s) : s \in DryRunTexts}

Environments ==
    [GITHUB_TOKEN : SecretValues,
     GROQ_API_KEY : SecretValues,
     REPO_OWNER : RepoOwnerValues,
     REPO_NAME : RepoNameValues,
     DISCUSSION_CATEGORY_ID : SecretValues,
     DRY_RUN : DryRunValues]

DefaultEnv ==
    [GITHUB_TOKEN |-> Str1("k"), GROQ_API_KEY |-> Str1("k"), REPO_OWNER |-> Str1("o"),
     REPO_NAME |-> Str1("a"), DISCUSSION_CATEGORY_ID |-> Str1("k"), DRY_RUN |-> PyNone]

\* a completion response whose first choice carries `content`
ResponseWith(content) ==
    [t |-> "completion",
     choices |-> PyList(<<[message |-> [role |-> "assistant", content |-> content]]>>)]

TransportError == Raise("ConnectionError", "", PyNone)

\* the responses of the completion call, contents up to n characters
TipResponses(n) ==
    {TransportError,
     [t |-> "completion", choices |-> PyNone],
     [t |-> "completion", choices |-> PyList(<<>>)],
     [t |-> "completion", choices |-> PyList(<<[message |-> [role |-> "assistant"]]>>)],
     ResponseWith(PyNone), ResponseWith(PyInt(0)), ResponseWith(PyInt(7)),
     ResponseWith(PyList(<<>>)), ResponseWith(PyList(<<Str1("a")>>))}
    \cup {ResponseWith(PyStr(s)) : s \in StringsUpTo({" ", "\n", "a"}, n)}

Http(status, body) == [t |-> "http", status |-> status, body |-> body]

\* a leaf of a GraphQL answer: the id or the url, right or wrong
LeafValues == {PyNone, PyInt(7), PyStr(<<>>), Str1("R"), PyList(<<>>)}

\* the objects that may stand where {key: leaf} is expected
Holders(key) ==
    {PyNone, PyStr(<<>>), PyList(<<>>), PyDict(<<>>), PyDict([other |-> Str1("R")])}
    \cup {PyDict([k \in {key} |-> v]) : v \in LeafValues}

\* data values of the repository query
RepoData ==
    {PyNone, Str1("R"), PyList(<<>>), PyInt(0), PyDict(<<>>)}
    \cup {PyDict([repository |-> h]) : h \in Holders("id")}

\* data values of the createDiscussion mutation
CreateData ==
    {PyNone, Str1("R"), PyList(<<>>), PyInt(0), PyDict(<<>>)}
    \cup {PyDict([createDiscussion |-> c]) :
            c \in {PyNone, Str1("R"), PyDict(<<>>)}
                  \cup {PyDict([discussion |-> h]) : h \in Holders("url")}}

GraphqlErrors == PyList(<<PyDict([message |-> Str1("m")])>>)

\* the responses of a GraphQL call whose data, when present, is drawn from `datas`
GraphqlResponses(datas) ==
    {TransportError, Http(401, PyDict([message |-> Str1("m")])),
     Http(502, [t |-> "invalid"]), Http(200, [t |-> "invalid"]),
     Http(200, PyNone), Http(200, PyInt(0)), Http(200, PyList(<<>>)),
     Http(200, PyList(<<PyStr(ErrorsKey)>>)), Http(200, PyStr(ErrorsKey)),
     Http(200, Str1("R")), Http(200, PyDict(<<>>)),
     Http(200, PyDict([errors |-> GraphqlErrors])),
     Http(200, PyDict([errors |-> PyNone]))}
    \cup {Http(200, PyDict([data |-> d])) : d \in datas}
    \cup {Http(200, PyDict([errors |-> GraphqlErrors, data |-> d])) : d \in datas}
    \cup {Http(s, PyDict([data |-> d])) : s \in {401, 502}, d \in datas}


RepoAnswer(id) == Http(200, PyDict([data |-> PyDict([repository |-> PyDict([id |-> id])])]))

CreateAnswer(url) ==
    Http(200, PyDict([data |->
        PyDict([createDiscussion |-> PyDict([discussion |-> PyDict([url |-> url])])])]))

\* the responses the publishing run draws from
MainTipResponses == TipResponses(1)

MainRepoResponses ==
    {TransportError, Http(401, PyDict([message |-> Str1("m")])),
     Http(200, PyDict([errors |-> GraphqlErrors])),
     Http(200, PyDict([data |-> PyNone])),
     Http(200, PyDict([data |-> PyDict([repository |-> PyNone])])),
     RepoAnswer(PyStr(<<>>)), RepoAnswer(Str1("R"))}

MainCreateResponses ==
    {TransportError, Http(502, [t |-> "invalid"]),
     Http(200, PyDict([errors |-> GraphqlErrors])),
     Http(200, PyDict([data |-> PyNone])),
     Http(200, PyDict([data |-> PyDict([createDiscussion |-> PyNone])])),
     CreateAnswer(PyStr(<<>>)), CreateAnswer(Str1("u")), CreateAnswer(PyStr(<<"u", "2">>))}

MainWindow == NowFirstDay..(NowFirstDay + MainDays - 1)

SchedWindow == NowFirstDay..(NowFirstDay + SchedDays - 1)

---------------------------------------------------------------------------
(* The run of scripts/generate_tip.py: import, then main(). *)

\* f"Daily Programming Insight -- {date} ({day_name})"
Title(info) ==
    [fmt |-> "Daily Programming Insight -- {date} ({day_name})",
     date |-> info.date, day_name |-> info.day_name]

GeneratingLine(info) ==
    [fmt |-> "Generating Daily Programming Insight for {day_name} ({date})",
     day_name |-> info.day_name, date |-> info.date]

Line(text) == [fmt |-> text]

BodyLine(body) == [fmt |-> "{post_body}", text |-> body]

CreatedLine(url) == [fmt |-> "Discussion created successfully: {discussion_url}", url |-> url]

\* a dry-run branch that stops after the notice
DryRunOutputWithoutBody(t, body) ==
    <<Line("DRY_RUN enabled - not posting to GitHub."),
      Line("--- Generated Post ---")>>

\* what main() prints on the dry-run branch, given the title t and the body:
\* lines 244-246 print the notice, the header and post_body; t is not used
DryRunOutput(t, body) ==
    <<Line("DRY_RUN enabled - not posting to GitHub."),
      Line("--- Generated Post ---"),
      BodyLine(body)>>

Idle ==
    /\ cfg = PyNone
    /\ err = NoErr
    /\ now = 0
    /\ variant = "scripts"
    /\ day_info = PyNone
    /\ prompt = <<>>
    /\ resp = PyNone
    /\ post_body = PyNone
    /\ title = PyNone
    /\ repo_id = PyNone
    /\ discussion_url = PyNone
    /\ out = <<>>
    /\ calls = <<>>

Init ==
    /\ env \in Environments
    /\ pc = "import"
    /\ Idle

\* the module-level code: configuration is loaded or the import raises
Import ==
    /\ pc = "import"
    /\ LET loaded == LoadConfig(env)
       IN  IF IsExc(loaded)
           THEN /\ err' = loaded
                /\ pc' = "failed"
                /\ cfg' = cfg
           ELSE /\ cfg' = loaded
                /\ pc' = "main"
                /\ err' = err
    /\ UNCHANGED <<env, now, variant, day_info, prompt, resp, post_body, title,
                   repo_id, discussion_url, out, calls>>

\* main(): day_info = get_current_day_info() and the first status line
ResolveDay ==
    /\ pc = "main"
    /\ \E z \in MainWindow :
         LET info == GetCurrentDayInfo(z)
         IN  /\ now' = z
             /\ IF IsExc(info)
                THEN /\ err' = info
                     /\ pc' = "failed"
                     /\ UNCHANGED <<day_info, out>>
                ELSE /\ day_info' = info
                     /\ out' = Append(out, GeneratingLine(info))
                     /\ pc' = "generate"
                     /\ err' = err
    /\ UNCHANGED <<env, cfg, variant, prompt, resp, post_body, title, repo_id,
                   discussion_url, calls>>

\* main(): generate_programming_tip, the title, and the dry-run branch
Generate ==
    /\ pc = "generate"
    /\ \E r \in MainTipResponses :
         LET body == GenerateProgrammingTip(r)
         IN  /\ resp' = r
             /\ prompt' = BuildUserPrompt(day_info)
             /\ calls' = Append(calls, [op |-> "completion"])
             /\ IF IsExc(body)
                THEN /\ err' = body
                     /\ pc' = "failed"
                     /\ UNCHANGED <<post_body, title, out>>
                ELSE /\ post_body' = body
                     /\ title' = Title(day_info)
                     /\ err' = err
                     /\ IF cfg.DRY_RUN
                        THEN /\ out' = out \o DryRunOutput(Title(day_info), body)
                             /\ pc' = "done"
                        ELSE /\ out' = out
                             /\ pc' = "fetch"
    /\ UNCHANGED <<env, cfg, now, variant, day_info, repo_id, discussion_url>>

\* main(): repo_id = fetch_repository_id(headers)
FetchRepository ==
    /\ pc = "fetch"
    /\ \E r \in MainRepoResponses :
         LET id == FetchRepositoryId(r)
         IN  /\ resp' = r
             /\ calls' = Append(calls, [op |-> "repository",
                                        owner |-> cfg.REPO_OWNER, name |-> cfg.REPO_NAME])
             /\ IF IsExc(id)
                THEN /\ err' = id
                     /\ pc' = "failed"
                     /\ repo_id' = repo_id
                ELSE /\ repo_id' = id
                     /\ pc' = "create"
                     /\ err' = err
    /\ UNCHANGED <<env, cfg, now, variant, day_info, prompt, post_body, title,
                   discussion_url, out>>

\* main(): discussion_url = create_discussion(...) and the success line
Publish ==
    /\ pc = "create"
    /\ \E r \in MainCreateResponses :
         LET url == CreateDiscussion(r)
         IN  /\ resp' = r
             /\ calls' = Append(calls, [op |-> "createDiscussion",
                                        repositoryId |-> repo_id,
                                        categoryId |-> cfg.DISCUSSION_CATEGORY_ID,
                                        title |-> title, body |-> post_body])
             /\ IF IsExc(url)
                THEN /\ err' = url
                     /\ pc' = "failed"
                     /\ UNCHANGED <<discussion_url, out>>
                ELSE /\ discussion_url' = url
                     /\ out' = Append(out, CreatedLine(url))
                     /\ pc' = "done"
                     /\ err' = err
    /\ UNCHANGED <<env, cfg, now, variant, day_info, prompt, post_body, title, repo_id>>

Next == Import \/ ResolveDay \/ Generate \/ FetchRepository \/ Publish

Spec == Init /\ [][Next]_vars

---------------------------------------------------------------------------
(* Properties of the publishing run (Spec). *)

CallOps == [i \in 1..Len(calls) |-> calls[i].op]

Printed(line) == \E i \in 1..Len(out) : out[i] = line

Loaded == cfg # PyNone

\* the value is one of the sixteen spellings of "true"
SpellsTrue(v) ==
    /\ v.t = "str"
    /\ Len(v.s) = 4
    /\ v.s[1] \in {"t", "T"}
    /\ v.s[2] \in {"r", "R"}
    /\ v.s[3] \in {"u", "U"}
    /\ v.s[4] \in {"e", "E"}

\* C1: when DRY_RUN spells "true" in any case, no run issues a GraphQL
\* request (neither the repository query nor the createDiscussion mutation),
\* whatever the completion call returns; for every other value, and when
\* DRY_RUN is unset, the run is not a dry run: it prints no dry-run notice
\* and goes on to the repository query once the completion succeeded.
C1_DryRunIssuesNoGraphql ==
    /\ SpellsTrue(env.DRY_RUN) =>
         \A i \in 1..Len(calls) : calls[i].op \notin {"repository", "createDiscussion"}
    /\ Loaded => (cfg.DRY_RUN <=> SpellsTrue(env.DRY_RUN))
    /\ (~SpellsTrue(env.DRY_RUN) /\ post_body # PyNone) =>
         /\ ~Printed(Line("DRY_RUN enabled - not posting to GitHub."))
         /\ pc \in {"fetch", "create", "failed", "done"}
         /\ (pc = "done" => CallOps = <<"completion", "repository", "createDiscussion">>)

C1_Witness ==
    /\ pc = "done"
    /\ env.DRY_RUN = PyStr(<<"t", "R", "u", "E">>)
    /\ resp # PyNone

\* C2 as stated: a dry run whose completion succeeded prints both the title
\* and the body before it ends successfully.
C2_DryRunPrintsTitleAndBody ==
    (pc = "done" /\ cfg.DRY_RUN) =>
        /\ Printed(title)
        /\ Printed(BodyLine(post_body))

\* C2 as amended: a dry run whose completion succeeded prints the dry-run
\* notice, the post header and the generated body, in that order after the
\* first status line, and ends successfully after the completion call alone;
\* the title is computed but is not among the printed lines.
C2_DryRunPrintsBody ==
    (pc = "done" /\ cfg.DRY_RUN) =>
        /\ out = <<GeneratingLine(day_info),
                   Line("DRY_RUN enabled - not posting to GitHub."),
                   Line("--- Generated Post ---"),
                   BodyLine(post_body)>>
        /\ post_body = GenerateProgrammingTip(resp)
        /\ title = Title(day_info)
        /\ ~Printed(title)
        /\ err = NoErr
        /\ CallOps = <<"completion">>

C2_Witness ==
    /\ pc = "done"
    /\ cfg.DRY_RUN
    /\ Printed(BodyLine(Str1("a")))

IsPrefix(a, b) == Len(a) <= Len(b) /\ SubSeq(b, 1, Len(a)) = a

NonEmptyStr(v) == v.t = "str" /\ Len(v.s) > 0

\* the url field of a well-formed createDiscussion answer
AnswerUrl(r) == r.body.f["data"].f["createDiscussion"].f["discussion"].f["url"]

C3_State ==
    /\ IsPrefix(CallOps, <<"completion", "repository", "createDiscussion">>)
    /\ Len(calls) >= 2 => (~cfg.DRY_RUN /\ NonEmptyStr(post_body))
    /\ Len(calls) >= 3 =>
         /\ NonEmptyStr(repo_id)
         /\ calls[3].repositoryId = repo_id
         /\ calls[3].body = post_body
         /\ calls[3].title = title
    /\ \A i \in 1..Len(out) :
         out[i].fmt = "Discussion created successfully: {discussion_url}" =>
            /\ i = Len(out)
            /\ pc = "done"
            /\ Len(calls) = 3
            /\ resp \in MainCreateResponses
            /\ resp.t = "http"
            /\ resp.status = 200
            /\ out[i].url = AnswerUrl(resp)
            /\ NonEmptyStr(out[i].url)
    /\ (pc = "done" /\ ~cfg.DRY_RUN) =>
         Printed(CreatedLine(discussion_url))
    /\ pc = "failed" => err # NoErr

C3_Step ==
    /\ calls' = calls \/ (Len(calls') = Len(calls) + 1 /\ IsPrefix(calls, calls'))
    /\ calls' # calls => (err = NoErr /\ pc \notin {"failed", "done"})
    /\ pc \in {"failed", "done"} => (calls' = calls /\ out' = out /\ pc' = pc)

\* C3: in a run that is not a dry run the remote calls occur in the order
\* completion, repository query, createDiscussion, each at most once; a
\* call is issued only after every earlier call returned a validated
\* result; after the first failure no further call is made; the success
\* line is printed only after createDiscussion returned a non-empty URL and
\* reports exactly that URL.
C3_CallsInOrderOnce == []C3_State /\ [][C3_Step]_vars

C3_Witness ==
    /\ pc = "done"
    /\ discussion_url = PyStr(<<"u", "2">>)
    /\ Len(calls) = 3

RequiredKeys == {"GITHUB_TOKEN", "GROQ_API_KEY", "REPO_NAME", "DISCUSSION_CATEGORY_ID"}

MissingKeyError(k) ==
    Raise("RuntimeError", "Missing required environment variable: ", EnvKey(k))

NothingRan == day_info = PyNone /\ calls = <<>> /\ out = <<>> /\ cfg = PyNone

\* C5 as stated: for each required key that is absent or empty, loading
\* fails with an error naming that key and no later step is executed.
C5_MissingKeyNamed ==
    \A k \in RequiredKeys :
        (pc # "import" /\ ~Truthy(env[k])) =>
            /\ pc = "failed"
            /\ err = MissingKeyError(k)
            /\ NothingRan

\* every configuration check made before key k passes
EarlierChecksPass(e, k) ==
    CASE k = "GITHUB_TOKEN" -> TRUE
      [] k = "GROQ_API_KEY" -> Truthy(e["GITHUB_TOKEN"])
      [] k = "REPO_NAME" -> Truthy(e["GITHUB_TOKEN"]) /\ Truthy(e["GROQ_API_KEY"])
      [] k = "DISCUSSION_CATEGORY_ID" ->
            /\ Truthy(e["GITHUB_TOKEN"])
            /\ Truthy(e["GROQ_API_KEY"])
            /\ Truthy(e["REPO_NAME"])
            /\ (Contains(e["REPO_NAME"].s, "/") \/ Truthy(e["REPO_OWNER"]))

\* C5 as amended: for each required key that is absent or empty, loading
\* fails with a configuration error and no later step is executed; the
\* message names that key when every configuration check before it passes
\* (the error raised is the one of the first failing check).
C5_MissingKeyFailsFast ==
    \A k \in RequiredKeys :
        (pc # "import" /\ ~Truthy(env[k])) =>
            /\ pc = "failed"
            /\ err.exc = "RuntimeError"
            /\ NothingRan
            /\ EarlierChecksPass(env, k) => err = MissingKeyError(k)

C5_Witness ==
    /\ pc = "failed"
    /\ env["DISCUSSION_CATEGORY_ID"] = PyStr(<<>>)
    /\ err = MissingKeyError("DISCUSSION_CATEGORY_ID")

SecretsSet ==
    /\ Truthy(env["GITHUB_TOKEN"])
    /\ Truthy(env["GROQ_API_KEY"])
    /\ Truthy(env["REPO_NAME"])

\* C6: a REPO_NAME with a "/" is cut at its first "/" into owner and name;
\* a bare REPO_NAME with a REPO_OWNER gives both as supplied; a bare
\* REPO_NAME with REPO_OWNER absent or empty fails with a configuration
\* error.
C6_RepoIdentity ==
    /\ (Loaded /\ Contains(env["REPO_NAME"].s, "/")) =>
          /\ ~Contains(cfg.REPO_OWNER.s, "/")
          /\ cfg.REPO_OWNER.s \o <<"/">> \o cfg.REPO_NAME.s = env["REPO_NAME"].s
    /\ (Loaded /\ ~Contains(env["REPO_NAME"].s, "/")) =>
          /\ Truthy(env["REPO_OWNER"])
          /\ cfg.REPO_OWNER = env["REPO_OWNER"]
          /\ cfg.REPO_NAME = env["REPO_NAME"]
    /\ (pc # "import" /\ SecretsSet /\ ~Contains(env["REPO_NAME"].s, "/")
            /\ ~Truthy(env["REPO_OWNER"])) =>
          /\ pc = "failed"
          /\ ~Loaded
          /\ err.exc = "RuntimeError"
          /\ err.arg = EnvKey("REPO_OWNER")
    /\ (pc # "import" /\ SecretsSet /\ Truthy(env["DISCUSSION_CATEGORY_ID"])
            /\ (Contains(env["REPO_NAME"].s, "/") \/ Truthy(env["REPO_OWNER"]))) =>
          Loaded

C6_Witness ==
    /\ Loaded
    /\ env["REPO_NAME"] = PyStr(<<"a", "/", "a">>)
    /\ cfg.REPO_OWNER = Str1("a")
    /\ cfg.REPO_NAME = Str1("a")

\* C10: whenever configuration loading succeeds the resolved REPO_OWNER and
\* REPO_NAME are both non-empty, so the repository query is never issued
\* with an empty owner or an empty name.
C10_ResolvedRepoNonEmpty ==
    /\ Loaded => (NonEmptyStr(cfg.REPO_OWNER) /\ NonEmptyStr(cfg.REPO_NAME))
    /\ \A i \in 1..Len(calls) :
         calls[i].op = "repository" =>
            (NonEmptyStr(calls[i].owner) /\ NonEmptyStr(calls[i].name))

---------------------------------------------------------------------------
(* The completion client on its own: every response shape, one call. *)

InitTip ==
    /\ env = DefaultEnv
    /\ pc = "tip"
    /\ resp \in TipResponses(MaxContentLen)
    /\ cfg = PyNone
    /\ err = NoErr
    /\ now = 0
    /\ variant = "scripts"
    /\ day_info = PyNone
    /\ prompt = <<>>
    /\ post_body = PyNone
    /\ title = PyNone
    /\ repo_id = PyNone
    /\ discussion_url = PyNone
    /\ out = <<>>
    /\ calls = <<>>

\* generate_programming_tip on the response drawn
TipStep ==
    /\ pc = "tip"
    /\ LET body == GenerateProgrammingTip(resp)
       IN  IF IsExc(body)
           THEN /\ err' = body
                /\ pc' = "tip_failed"
                /\ post_body' = post_body
           ELSE /\ post_body' = body
                /\ pc' = "tip_done"
                /\ err' = err
    /\ calls' = Append(calls, [op |-> "completion"])
    /\ UNCHANGED <<env, cfg, now, variant, day_info, prompt, resp, title, repo_id,
                   discussion_url, out>>

NextTip == TipStep

SpecTip == InitTip /\ [][NextTip]_vars

---------------------------------------------------------------------------
(* The two GraphQL calls on their own: every response shape, one call. *)

InitGql ==
    /\ env = DefaultEnv
    /\ \/ pc = "gql_fetch" /\ resp \in GraphqlResponses(RepoData)
       \/ pc = "gql_create" /\ resp \in GraphqlResponses(CreateData)
    /\ cfg = PyNone
    /\ err = NoErr
    /\ now = 0
    /\ variant = "scripts"
    /\ day_info = PyNone
    /\ prompt = <<>>
    /\ post_body = PyNone
    /\ title = PyNone
    /\ repo_id = PyNone
    /\ discussion_url = PyNone
    /\ out = <<>>
    /\ calls = <<>>

\* fetch_repository_id on the response drawn
FetchStep ==
    /\ pc = "gql_fetch"
    /\ LET id == FetchRepositoryId(resp)
       IN  IF IsExc(id)
           THEN /\ err' = id
                /\ pc' = "gql_failed"
                /\ repo_id' = repo_id
           ELSE /\ repo_id' = id
                /\ pc' = "gql_done"
                /\ err' = err
    /\ calls' = Append(calls, [op |-> "repository"])
    /\ UNCHANGED <<env, cfg, now, variant, day_info, prompt, resp, post_body, title,
                   discussion_url, out>>

\* create_discussion on the response drawn
CreateStep ==
    /\ pc = "gql_create"
    /\ LET url == CreateDiscussion(resp)
       IN  IF IsExc(url)
           THEN /\ err' = url
                /\ pc' = "gql_failed"
                /\ discussion_url' = discussion_url
           ELSE /\ discussion_url' = url
                /\ pc' = "gql_done"
                /\ err' = err
    /\ calls' = Append(calls, [op |-> "createDiscussion"])
    /\ UNCHANGED <<env, cfg, now, variant, day_info, prompt, resp, post_body, title,
                   repo_id, out>>

NextGql == FetchStep \/ CreateStep

SpecGql == InitGql /\ [][NextGql]_vars

---------------------------------------------------------------------------
(* The schedule resolver of both scripts and the prompt builder. *)

InitSched ==
    /\ env = DefaultEnv
    /\ pc = "sched"
    /\ variant \in {"scripts", "workflows"}
    /\ now \in SchedWindow
    /\ cfg = PyNone
    /\ err = NoErr
    /\ day_info = PyNone
    /\ prompt = <<>>
    /\ resp = PyNone
    /\ post_body = PyNone
    /\ title = PyNone
    /\ repo_id = PyNone
    /\ discussion_url = PyNone
    /\ out = <<>>
    /\ calls = <<>>

Resolved(info) ==
    IF IsExc(info)
    THEN /\ err' = info
         /\ pc' = "sched_failed"
         /\ day_info' = day_info
    ELSE /\ day_info' = info
         /\ pc' = "resolved"
         /\ err' = err

\* get_current_day_info() of scripts/generate_tip.py
ResolveScripts ==
    /\ pc = "sched"
    /\ variant = "scripts"
    /\ Resolved(GetCurrentDayInfo(now))
    /\ UNCHANGED <<env, cfg, now, variant, prompt, resp, post_body, title, repo_id,
                   discussion_url, out, calls>>

\* get_current_day_info() of workflows/generate_tip.py
ResolveWorkflows ==
    /\ pc = "sched"
    /\ variant = "workflows"
    /\ Resolved(GetCurrentDayInfoWorkflows(now))
    /\ UNCHANGED <<env, cfg, now, variant, prompt, resp, post_body, title, repo_id,
                   discussion_url, out, calls>>

\* build_user_prompt(day_info) of scripts/generate_tip.py
RenderPrompt ==
    /\ pc = "resolved"
    /\ variant = "scripts"
    /\ prompt' = BuildUserPrompt(day_info)
    /\ pc' = "rendered"
    /\ UNCHANGED <<env, cfg, err, now, variant, day_info, resp, post_body, title,
                   repo_id, discussion_url, out, calls>>

NextSched == ResolveScripts \/ ResolveWorkflows \/ RenderPrompt

SpecSched == InitSched /\ [][NextSched]_vars

---------------------------------------------------------------------------
(* Properties of the completion client (SpecTip). *)

TipRan == pc \in {"tip_failed", "tip_done"}

AllSpace(s) == \A i \in 1..Len(s) : s[i] \in {" ", "\n", "\t"}

\* the first choice's content, None when the message has none
FirstContent(r) ==
    IF "content" \in DOMAIN r.choices.l[1].message
    THEN r.choices.l[1].message["content"]
    ELSE PyNone

\* b is a with the whitespace at both ends removed
IsTrimOf(b, a) ==
    \E i \in 1..Len(a) : \E j \in i..Len(a) :
        /\ b = SubSeq(a, i, j)
        /\ AllSpace(SubSeq(a, 1, i - 1))
        /\ AllSpace(SubSeq(a, j + 1, Len(a)))
        /\ ~AllSpace(<<a[i]>>)
        /\ ~AllSpace(<<a[j]>>)

\* C7: a response with no choices fails; a first choice whose content is
\* absent, not a string, empty or all whitespace fails; otherwise the
\* function returns exactly that content with the whitespace at both ends
\* removed, and the returned body is never empty.
C7_TipValidated ==
    (TipRan /\ resp.t = "completion") =>
        IF resp.choices.t # "list" \/ resp.choices.l = <<>>
        THEN pc = "tip_failed" /\ err.exc = "RuntimeError" /\ post_body = PyNone
        ELSE LET content == FirstContent(resp)
             IN  IF content.t # "str" \/ AllSpace(content.s)
                 THEN pc = "tip_failed" /\ err.exc = "RuntimeError" /\ post_body = PyNone
                 ELSE /\ pc = "tip_done"
                      /\ err = NoErr
                      /\ post_body.t = "str"
                      /\ post_body.s # <<>>
                      /\ IsTrimOf(post_body.s, content.s)

C7_Witness ==
    /\ pc = "tip_done"
    /\ resp = ResponseWith(PyStr(<<"\n", "a", " ", "a">>))
    /\ post_body = PyStr(<<"a", " ", "a">>)

---------------------------------------------------------------------------
(* Properties of the publisher (SpecGql). *)

GqlRan == pc \in {"gql_failed", "gql_done"}

\* the path of the expected field below the response body
FieldPath ==
    IF calls[1].op = "repository"
    THEN <<"data", "repository", "id">>
    ELSE <<"data", "createDiscussion", "discussion", "url">>

\* the value at `path` below v; Missing when a step of the path is absent
\* or its parent is no object
Missing == [t |-> "missing"]

RECURSIVE Lookup(_, _)
Lookup(v, path) ==
    IF path = <<>> THEN v
    ELSE IF v.t = "dict" /\ Head(path) \in DOMAIN v.f
         THEN Lookup(v.f[Head(path)], Tail(path))
         ELSE Missing

\* the messages that name the field the answer lacks
NamesMissingField(e) ==
    \/ /\ e.exc = "RuntimeError"
       /\ e.msg \in {"Unable to resolve repository ID from GitHub API response",
                     "GitHub repository ID was missing or invalid",
                     "GitHub did not return a discussion URL",
                     "GitHub discussion URL was missing or invalid"}
    \/ e.exc = "KeyError" /\ e.msg = "data"

\* C8: for each of the two GraphQL calls, a non-success HTTP status or a
\* body with an `errors` entry fails with the error detail; every answer
\* that lacks the expected nested field (data missing or null, a parent
\* missing or not an object, the value missing, not a string or empty)
\* fails with an error naming the missing field; so only a non-empty string
\* is ever returned.
C8_GraphqlFailuresNamed ==
    (GqlRan /\ resp.t = "http") =>
        /\ resp.status \notin 200..299 =>
              (pc = "gql_failed" /\ err.exc = "HTTPError" /\ err.arg = [status |-> resp.status])
        /\ (resp.status \in 200..299 /\ resp.body.t = "dict"
                /\ "errors" \in DOMAIN resp.body.f) =>
              (pc = "gql_failed" /\ err.exc = "RuntimeError"
                  /\ err.arg = resp.body.f["errors"])
        /\ (resp.status \in 200..299 /\ resp.body.t = "dict"
                /\ "errors" \notin DOMAIN resp.body.f
                /\ ~NonEmptyStr(Lookup(resp.body, FieldPath))) =>
              (pc = "gql_failed" /\ NamesMissingField(err))
        /\ pc = "gql_done" =>
              /\ NonEmptyStr(IF calls[1].op = "repository" THEN repo_id ELSE discussion_url)
              /\ Lookup(resp.body, FieldPath) =
                    (IF calls[1].op = "repository" THEN repo_id ELSE discussion_url)

---------------------------------------------------------------------------
(* Properties of the schedule resolver and the prompt builder (SpecSched). *)

\* the weekday names in the order of datetime.weekday()
WeekdayNames ==
    <<"Monday", "Tuesday", "Wednesday", "Thursday", "Friday", "Saturday", "Sunday">>

ScheduleOf(v) ==
    IF v = "scripts" THEN LANGUAGE_SCHEDULE ELSE LANGUAGE_SCHEDULE_WORKFLOWS

\* C4: for every weekday w (Monday = 0 .. Sunday = 6) of the current UTC
\* date the resolver uses the index (w + 1) mod 7, which lies in 0..6 and
\* differs for different w; DAY_NAMES and LANGUAGE_SCHEDULE have an entry
\* for it, so the lookup never fails; day_name is the name of that weekday
\* and language is the table entry of that day (Monday gives Python, Sunday
\* gives Wildcard).
C4_ScheduleTotal ==
    /\ \A w \in 0..6 :
          /\ SundayIndex(w) = (w + 1) % 7
          /\ SundayIndex(w) \in 0..6
          /\ SundayIndex(w) \in DOMAIN DAY_NAMES
          /\ SundayIndex(w) \in DOMAIN ScheduleOf(variant)
          /\ \A x \in 0..6 : SundayIndex(w) = SundayIndex(x) => w = x
    /\ pc # "sched" =>
          /\ pc # "sched_failed"
          /\ day_info.t = "day_info"
          /\ day_info.day_name = WeekdayNames[PyWeekday(now) + 1]
          /\ day_info.language = ScheduleOf(variant)[(PyWeekday(now) + 1) % 7]
          /\ day_info.day_name = "Monday" => day_info.language = "Python"
          /\ day_info.day_name = "Sunday" => day_info.language = "Wildcard"

C4_Witness ==
    /\ pc = "resolved"
    /\ PyWeekday(now) = 6
    /\ day_info.day_name = "Sunday"
    /\ day_info.language = "Wildcard"

\* the text `needle` is found in the piece `tok`
WordIn(needle, tok) ==
    /\ "w" \in DOMAIN tok
    /\ \/ tok.w = needle
       \/ needle = "Java" /\ tok.w = "JavaScript"

DateCount ==
    Cardinality({i \in 1..Len(prompt) : prompt[i] = DateToken(day_info.date)})

DayNameCount ==
    Cardinality({i \in 1..Len(prompt) : WordIn(day_info.day_name, prompt[i])})

LanguageCount ==
    Cardinality({i \in 1..Len(prompt) : WordIn(day_info.language, prompt[i])})

Numerals == <<"1. ", "2. ", "3. ", "4. ", "5. ", "6. ", "7. ">>

\* the places where section k is listed under its number
ListedAt(k) ==
    {i \in 2..Len(prompt) :
        prompt[i] = W(SectionNames[k]) /\ prompt[i - 1] = W(Numerals[k])}

SectionsInOrder ==
    /\ \A k \in 1..7 : Cardinality(ListedAt(k)) = 1
    /\ \A k \in 1..6 : \A i \in ListedAt(k) : \A j \in ListedAt(k + 1) : i < j

\* C9 as stated: the rendered prompt contains the resolved date, day name
\* and language exactly once each and lists the seven section names in the
\* fixed order.
C9_PromptEmbedsOnce ==
    pc = "rendered" =>
        /\ DateCount = 1
        /\ DayNameCount = 1
        /\ LanguageCount = 1
        /\ SectionsInOrder

\* C9 as amended: the rendered prompt contains the resolved date exactly
\* once; the resolved day name exactly twice (the Day line and the fixed
\* schedule list); the resolved language more than once, since it is
\* interpolated twice and the fixed text names it too (three times for
\* Wildcard, JavaScript and Go, four times for Python and Java); and it
\* lists the seven section names in the fixed order.
C9_PromptEmbeds ==
    pc = "rendered" =>
        /\ DateCount = 1
        /\ DayNameCount = 2
        /\ LanguageCount =
              (IF day_info.language \in {"Python", "Java"} THEN 4 ELSE 3)
        /\ Len(day_info.date) = 10
        /\ SectionsInOrder

C9_Witness ==
    /\ pc = "rendered"
    /\ day_info.day_name = "Tuesday"
    /\ day_info.language = "Java"
    /\ LanguageCount = 4

====
